---- MODULE Spec2Model ----
(***************************************************************************)
(* Model of the weather MCP server, weather-server/src/index.ts.           *)
(*                                                                         *)
(* Representation of JavaScript values:                                    *)
(*   - an argument value is a record [t, s, n]: t is the JSON type         *)
(*     ("undefined" for an omitted key, "string", "number", "null"), s the *)
(*     string when t = "string", n the number when t = "number";           *)
(*   - argument numbers (days, limit) are counted in halves: n = 3 is 1.5; *)
(*   - temperatures and wind speeds of the upstream payload are counted in *)
(*     quarters (n = 41 is 10.25), coordinates in 1/32 of a degree, all    *)
(*     exactly representable as doubles;                                   *)
(*   - a text is a sequence of tokens [k, s, n]: a literal piece of a      *)
(*     template ("lit"), an interpolated string ("str"), an interpolated   *)
(*     number ("num", s names its unit), or a validation issue.            *)
(***************************************************************************)
EXTENDS Integers, Sequences, FiniteSets

\* ------------------------------------------------------------------ bounds
MaxList == 3
MaxCand == 2

\* ------------------------------------------------------- program constants
DaysMin == 1
DaysMax == 5
DaysDefault == 3
LimitMin == 1
LimitMax == 10
LimitDefault == 5
StatusNotFound == 404
SecondsPerDay == 86400

\* halves per unit of an argument number
ArgScale == 2

\* ---------------------------------------------------------------- JS values
Undefined == [t |-> "undefined", s |-> "", n |-> 0]
Null == [t |-> "null", s |-> "", n |-> 0]
JsStr(s) == [t |-> "string", s |-> s, n |-> 0]
JsNum(n) == [t |-> "number", s |-> "", n |-> n]

\* ------------------------------------------------------------------- tokens
Lit(s) == [k |-> "lit", s |-> s, n |-> 0]
Str(s) == [k |-> "str", s |-> s, n |-> 0]
Num(unit, n) == [k |-> "num", s |-> unit, n |-> n]
Issue(code, path) == [k |-> code, s |-> path, n |-> 0]

\* --------------------------------------------------------------- validation
\* z.string()
ZString(v, path) ==
  IF v.t = "string" THEN [ok |-> TRUE, value |-> v, issues |-> <<>>]
  ELSE [ok |-> FALSE, value |-> v, issues |-> <<Issue("invalid_type", path)>>]

\* a variant of ZUnits without the enum membership check
ZUnitsAnyString(v, path) ==
  IF v.t = "undefined" THEN [ok |-> TRUE, value |-> JsStr("metric"), issues |-> <<>>]
  ELSE IF v.t # "string"
    THEN [ok |-> FALSE, value |-> v, issues |-> <<Issue("invalid_type", path)>>]
  ELSE [ok |-> TRUE, value |-> v, issues |-> <<>>]

\* z.enum(["metric", "imperial", "kelvin"]).default("metric")
UnitsEnum == {"metric", "imperial", "kelvin"}

ZUnits(v, path) ==
  IF v.t = "undefined" THEN [ok |-> TRUE, value |-> JsStr("metric"), issues |-> <<>>]
  ELSE IF v.t # "string"
    THEN [ok |-> FALSE, value |-> v, issues |-> <<Issue("invalid_type", path)>>]
  ELSE IF v.s \notin UnitsEnum
    THEN [ok |-> FALSE, value |-> v, issues |-> <<Issue("invalid_enum_value", path)>>]
  ELSE [ok |-> TRUE, value |-> v, issues |-> <<>>]

\* z.number().min(lo).max(hi).default(dflt); lo, hi, dflt in whole units
ZNumber(v, path, lo, hi, dflt) ==
  IF v.t = "undefined" THEN [ok |-> TRUE, value |-> JsNum(dflt * ArgScale), issues |-> <<>>]
  ELSE IF v.t # "number"
    THEN [ok |-> FALSE, value |-> v, issues |-> <<Issue("invalid_type", path)>>]
  ELSE IF v.n < lo * ArgScale
    THEN [ok |-> FALSE, value |-> v, issues |-> <<Issue("too_small", path)>>]
  ELSE IF v.n > hi * ArgScale
    THEN [ok |-> FALSE, value |-> v, issues |-> <<Issue("too_big", path)>>]
  ELSE [ok |-> TRUE, value |-> v, issues |-> <<>>]

\* An argument bag: present = FALSE is a request without "arguments".
NoArgs ==
  [present |-> FALSE, location |-> Undefined, units |-> Undefined,
   days |-> Undefined, query |-> Undefined, limit |-> Undefined]

ObjectRequired == <<Issue("invalid_type", "")>>

GetCurrentWeatherSchema(args) ==
  IF ~args.present THEN [ok |-> FALSE, issues |-> ObjectRequired,
                         location |-> Undefined, units |-> Undefined]
  ELSE LET l == ZString(args.location, "location")
           u == ZUnits(args.units, "units")
       IN [ok |-> l.ok /\ u.ok, issues |-> l.issues \o u.issues,
           location |-> l.value, units |-> u.value]

GetWeatherForecastSchema(args) ==
  IF ~args.present THEN [ok |-> FALSE, issues |-> ObjectRequired,
                         location |-> Undefined, days |-> Undefined, units |-> Undefined]
  ELSE LET l == ZString(args.location, "location")
           d == ZNumber(args.days, "days", DaysMin, DaysMax, DaysDefault)
           u == ZUnits(args.units, "units")
       IN [ok |-> l.ok /\ d.ok /\ u.ok, issues |-> l.issues \o d.issues \o u.issues,
           location |-> l.value, days |-> d.value, units |-> u.value]

SearchLocationSchema(args) ==
  IF ~args.present THEN [ok |-> FALSE, issues |-> ObjectRequired,
                         query |-> Undefined, limit |-> Undefined]
  ELSE LET q == ZString(args.query, "query")
           m == ZNumber(args.limit, "limit", LimitMin, LimitMax, LimitDefault)
       IN [ok |-> q.ok /\ m.ok, issues |-> q.issues \o m.issues,
           query |-> q.value, limit |-> m.value]

\* ------------------------------------------------------------ configuration
OPENWEATHER_BASE_URL == "https://api.openweathermap.org/data/2.5"
GEO_BASE_URL == "https://api.openweathermap.org/geo/1.0"

\* A string holding a lone surrogate: encodeURIComponent throws URIError on it.
LoneSurrogate == "\\uD800"

\* encodeURIComponent on the strings of the model; "throws" marks URIError.
encodeURIComponent(s) ==
  CASE s = "London" -> "London"
    [] s = "New York" -> "New%20York"
    [] s = "Springfield" -> "Springfield"
    [] s = "" -> ""
    [] s = LoneSurrogate -> "throws"
    [] OTHER -> s

\* ---------------------------------------------------------------- rounding
\* Math.round(x * 10) / 10 for x = q/4, result in tenths: floor(x*10 + 1/2)
RoundTenths(q) == (5 * q + 1) \div 2

\* a variant of RoundMean that truncates the mean
RoundMeanTruncated(sum, len) == sum \div len

\* Math.round(sum / len) for integers: floor(sum/len + 1/2)
RoundMean(sum, len) == (2 * sum + len) \div (2 * len)

\* Math.round(sum / len * 10) / 10 for sum in quarters, result in tenths
RoundMeanTenths(sum, len) == (5 * sum + len) \div (2 * len)

\* Number.prototype.toFixed(4) for x = v/32, result in 1/10000: ties away from 0
toFixed4(v) ==
  IF v < 0 THEN 0 - ((625 * (0 - v) + 1) \div 2) ELSE (625 * v + 1) \div 2

RECURSIVE SumSeq(_)
SumSeq(s) == IF s = <<>> THEN 0 ELSE Head(s) + SumSeq(Tail(s))

\* a variant of MinSeq that takes the first element for the least
MinSeqFirst(s) == s[1]

RECURSIVE MinSeq(_)
MinSeq(s) ==
  IF Len(s) = 1 THEN s[1]
  ELSE LET m == MinSeq(Tail(s)) IN IF s[1] < m THEN s[1] ELSE m

RECURSIVE MaxSeq(_)
MaxSeq(s) ==
  IF Len(s) = 1 THEN s[1]
  ELSE LET m == MaxSeq(Tail(s)) IN IF s[1] > m THEN s[1] ELSE m

\* ------------------------------------------------------- errors and results
\* A thrown value: an Error with its message, or something that is no Error.
ErrorOf(message) == [isError |-> TRUE, message |-> message]
TypeError == ErrorOf(<<Lit("TypeError: Cannot read properties of undefined")>>)
URIError == ErrorOf(<<Lit("URI malformed")>>)
InvalidJson == ErrorOf(<<Lit("invalid json response body")>>)
FetchFailed == ErrorOf(<<Lit("request failed")>>)
ZodError(issues) == ErrorOf(issues)
NoKeyError ==
  ErrorOf(<<Lit("OpenWeather API key not configured. Please set OPENWEATHER_API_KEY environment variable.")>>)

NoError == [isError |-> FALSE, message |-> <<>>]
TextContent(text) == <<[type |-> "text", text |-> text]>>

\* The outcome of a piece of a handler: it returned content, or it threw.
Returned(text) == [threw |-> FALSE, error |-> NoError, content |-> TextContent(text)]
Threw(error) == [threw |-> TRUE, error |-> error, content |-> <<>>]

\* ------------------------------------------------------------ presentation
UnitsDisplay(units) ==
  IF units = "metric" THEN "degC" ELSE IF units = "imperial" THEN "degF" ELSE "K"

WindUnits(units) == IF units = "metric" THEN "m/s" ELSE "mph"

\* String.prototype.trim on a text whose only outer white space is a final
\* run of "\n\n" literals
RECURSIVE Trim(_)
Trim(text) ==
  IF text # <<>> /\ text[Len(text)] = Lit("\n\n")
  THEN Trim(SubSeq(text, 1, Len(text) - 1))
  ELSE text

\* ------------------------------------------------------ processForecastData
\* An upstream forecast entry: dt in seconds, temp and wind in quarters,
\* desc the value of weather[0].description (a string or undefined);
\* complete = FALSE is an entry without its "main" object.

\* new Date(item.dt * 1000).toISOString().split('T')[0]: the UTC calendar day,
\* as a day number
DateOf(item) == item.dt \div SecondsPerDay

\* the grouping loop: dailyData keeps its keys in insertion order
RECURSIVE GroupByDate(_, _)
GroupByDate(forecastList, dailyData) ==
  IF forecastList = <<>> THEN dailyData
  ELSE LET item == Head(forecastList)
           date == DateOf(item)
           has == \E i \in DOMAIN dailyData : dailyData[i].date = date
           withKey == IF has THEN dailyData
                      ELSE Append(dailyData, [date |-> date, forecasts |-> <<>>])
           pushed == [i \in DOMAIN withKey |->
                        IF withKey[i].date = date
                        THEN [withKey[i] EXCEPT !.forecasts = Append(@, item)]
                        ELSE withKey[i]]
       IN GroupByDate(Tail(forecastList), pushed)

\* descriptions.filter(v => v === a).length
CountOf(descriptions, a) ==
  Cardinality({i \in DOMAIN descriptions : descriptions[i] = a})

\* one insertion of a stable ascending sort by frequency in `all`
RECURSIVE InsertByCount(_, _, _)
InsertByCount(sorted, x, all) ==
  IF sorted = <<>> THEN <<x>>
  ELSE LET last == sorted[Len(sorted)]
       IN IF CountOf(all, last) - CountOf(all, x) > 0
          THEN Append(InsertByCount(SubSeq(sorted, 1, Len(sorted) - 1), x, all), last)
          ELSE Append(sorted, x)

RECURSIVE StableSortByCount(_, _)
StableSortByCount(s, all) ==
  IF s = <<>> THEN <<>>
  ELSE InsertByCount(StableSortByCount(SubSeq(s, 1, Len(s) - 1), all), s[Len(s)], all)

IsUndefined(v) == v.t = "undefined"
IsDefined(v) == v.t # "undefined"

\* Array.prototype.sort(comparefn): undefined elements go last and are never
\* compared; the others are sorted stably by the comparator
SortDescriptions(descriptions) ==
  StableSortByCount(SelectSeq(descriptions, IsDefined), descriptions)
    \o SelectSeq(descriptions, IsUndefined)

\* a variant of MostCommon that takes the first label of maximal frequency
MostCommonFirst(descriptions) ==
  LET best == {i \in DOMAIN descriptions :
                 \A j \in DOMAIN descriptions :
                   CountOf(descriptions, descriptions[j])
                     <= CountOf(descriptions, descriptions[i])}
      first == CHOOSE i \in best : \A j \in best : i <= j
  IN IF \E i \in DOMAIN descriptions : IsUndefined(descriptions[i])
     THEN Undefined ELSE descriptions[first]

\* descriptions.sort(...).pop()
MostCommon(descriptions) ==
  LET sorted == SortDescriptions(descriptions) IN sorted[Len(sorted)]

\* mostCommon || "Unknown"
DescriptionOrUnknown(v) ==
  IF v.t = "string" /\ v.s # "" THEN v.s ELSE "Unknown"

\* The time zone of the process: TRUE when local time is behind UTC.
VARIABLE localBehindUTC

\* new Date(date).toLocaleDateString() for date = "YYYY-MM-DD": the string is
\* parsed as midnight UTC and rendered in local time, which is still the day
\* before where local time is behind UTC; the result as a day number
toLocaleDateString(date) == IF localBehindUTC THEN date - 1 ELSE date

\* the body of the loop for one date
DailyAggregate(date, forecasts) ==
  LET temps == [i \in DOMAIN forecasts |-> forecasts[i].temp]
      descriptions == [i \in DOMAIN forecasts |-> forecasts[i].desc]
      hums == [i \in DOMAIN forecasts |-> forecasts[i].humidity]
      winds == [i \in DOMAIN forecasts |-> forecasts[i].wind]
  IN [date |-> toLocaleDateString(date),
      min |-> RoundTenths(MinSeq(temps)),
      max |-> RoundTenths(MaxSeq(temps)),
      description |-> DescriptionOrUnknown(MostCommon(descriptions)),
      humidity |-> RoundMean(SumSeq(hums), Len(forecasts)),
      windSpeed |-> RoundMeanTenths(SumSeq(winds), Len(forecasts))]

\* if (count >= days) break; days in halves
LoopBreaks(count, days) == count * ArgScale >= days

\* the loop over dailyData.entries(): [threw, days]
RECURSIVE ForecastLoop(_, _, _, _)
ForecastLoop(dailyData, days, count, dailyForecasts) ==
  IF count >= Len(dailyData) \/ LoopBreaks(count, days)
  THEN [threw |-> FALSE, days |-> dailyForecasts]
  ELSE LET b == dailyData[count + 1]
       IN IF \E i \in DOMAIN b.forecasts : ~b.forecasts[i].complete
          THEN [threw |-> TRUE, days |-> <<>>]
          ELSE ForecastLoop(dailyData, days, count + 1,
                            Append(dailyForecasts, DailyAggregate(b.date, b.forecasts)))

processForecastData(forecastList, days) ==
  ForecastLoop(GroupByDate(forecastList, <<>>), days, 0, <<>>)

\* ------------------------------------------------------------- the handlers
\* Each handler runs in three pieces, cut at its two awaits: up to fetch(url),
\* from the settled fetch to response.json(), and from the parsed body on.

\* a variant of ResponseOk that takes every status below 500 for a success
ResponseOkBelow500(status) == status >= 200 /\ status <= 499

\* response.ok
ResponseOk(status) == status >= 200 /\ status <= 299

Fetch(url) == [threw |-> FALSE, error |-> NoError, fetch |-> TRUE, url |-> url]
NoUrl == [base |-> "", endpoint |-> "", q |-> "", units |-> "", limit |-> 0, appid |-> ""]
ThrewBeforeFetch(error) == [threw |-> TRUE, error |-> error, fetch |-> FALSE, url |-> NoUrl]

LocationNotFound(location) ==
  ErrorOf(<<Lit("Location \""), Str(location),
            Lit("\" not found. Please check the spelling and try again.")>>)

ApiError(prefix, reply) ==
  ErrorOf(<<Lit(prefix), Num("status", reply.status), Lit(" "), Str(reply.statusText)>>)

\* a variant of getCurrentWeatherStart that checks the credential first
getCurrentWeatherStartKeyFirst(args, key) ==
  IF key = "" THEN ThrewBeforeFetch(NoKeyError)
  ELSE IF ~GetCurrentWeatherSchema(args).ok
    THEN ThrewBeforeFetch(ZodError(GetCurrentWeatherSchema(args).issues))
  ELSE IF encodeURIComponent(GetCurrentWeatherSchema(args).location.s) = "throws"
    THEN ThrewBeforeFetch(URIError)
  ELSE Fetch([base |-> OPENWEATHER_BASE_URL, endpoint |-> "/weather",
              q |-> encodeURIComponent(GetCurrentWeatherSchema(args).location.s),
              units |-> GetCurrentWeatherSchema(args).units.s, limit |-> 0, appid |-> key])

\* index.ts 194-202
getCurrentWeatherStart(args, key) ==
  LET p == GetCurrentWeatherSchema(args)
  IN IF ~p.ok THEN ThrewBeforeFetch(ZodError(p.issues))
     ELSE IF key = "" THEN ThrewBeforeFetch(NoKeyError)
     ELSE IF encodeURIComponent(p.location.s) = "throws" THEN ThrewBeforeFetch(URIError)
     ELSE Fetch([base |-> OPENWEATHER_BASE_URL, endpoint |-> "/weather", q |-> encodeURIComponent(p.location.s),
                 units |-> p.units.s, limit |-> 0, appid |-> key])

\* a variant of getWeatherForecastStart without the credential check
getWeatherForecastStartNoKeyCheck(args, key) ==
  LET p == GetWeatherForecastSchema(args)
  IN IF ~p.ok THEN [threw |-> TRUE, error |-> ZodError(p.issues), fetch |-> FALSE,
                    url |-> [base |-> "", endpoint |-> "", q |-> "", units |-> "", limit |-> 0,
                             appid |-> ""]]
     ELSE [threw |-> FALSE, error |-> NoError, fetch |-> TRUE,
           url |-> [base |-> OPENWEATHER_BASE_URL, endpoint |-> "/forecast", q |-> encodeURIComponent(p.location.s),
                    units |-> p.units.s, limit |-> 0, appid |-> key]]

\* index.ts 243-251
getWeatherForecastStart(args, key) ==
  LET p == GetWeatherForecastSchema(args)
  IN IF ~p.ok THEN ThrewBeforeFetch(ZodError(p.issues))
     ELSE IF key = "" THEN ThrewBeforeFetch(NoKeyError)
     ELSE IF encodeURIComponent(p.location.s) = "throws" THEN ThrewBeforeFetch(URIError)
     ELSE Fetch([base |-> OPENWEATHER_BASE_URL, endpoint |-> "/forecast", q |-> encodeURIComponent(p.location.s),
                 units |-> p.units.s, limit |-> 0, appid |-> key])

\* index.ts 294-302
searchLocationsStart(args, key) ==
  LET p == SearchLocationSchema(args)
  IN IF ~p.ok THEN ThrewBeforeFetch(ZodError(p.issues))
     ELSE IF key = "" THEN ThrewBeforeFetch(NoKeyError)
     ELSE IF encodeURIComponent(p.query.s) = "throws" THEN ThrewBeforeFetch(URIError)
     ELSE Fetch([base |-> GEO_BASE_URL, endpoint |-> "/direct", q |-> encodeURIComponent(p.query.s),
                 units |-> "", limit |-> p.limit.n, appid |-> key])

\* index.ts 202-208 and 251-257: [threw, error]; threw = FALSE goes on to json()
WeatherStatusCheck(location, reply) ==
  IF reply.kind = "rejected" THEN [threw |-> TRUE, error |-> FetchFailed]
  ELSE IF ~ResponseOk(reply.status)
    THEN IF reply.status = StatusNotFound
         THEN [threw |-> TRUE, error |-> LocationNotFound(location)]
         ELSE [threw |-> TRUE, error |-> ApiError("Weather API error: ", reply)]
  ELSE [threw |-> FALSE, error |-> NoError]

\* index.ts 302-305
GeocodingStatusCheck(reply) ==
  IF reply.kind = "rejected" THEN [threw |-> TRUE, error |-> FetchFailed]
  ELSE IF ~ResponseOk(reply.status)
    THEN [threw |-> TRUE, error |-> ApiError("Geocoding API error: ", reply)]
  ELSE [threw |-> FALSE, error |-> NoError]

\* index.ts 210-239
getCurrentWeatherFinish(args, data, now) ==
  LET units == GetCurrentWeatherSchema(args).units.s
  IN IF data.kind = "invalid" THEN Threw(InvalidJson)
     ELSE IF ~data.complete THEN Threw(TypeError)
     ELSE Returned(
       <<Lit("**Current Weather for "), Str(data.name), Lit(", "), Str(data.country),
         Lit("**\n\n"),
         Lit("**Temperature:** "), Num("tenths", RoundTenths(data.temp)),
         Str(UnitsDisplay(units)), Lit("\n"),
         Lit("**Condition:** "), Str(data.desc), Lit("\n"),
         Lit("**Humidity:** "), Num("", data.humidity), Lit("%\n"),
         Lit("**Wind Speed:** "), Num("quarters", data.wind), Lit(" "),
         Str(WindUnits(units)), Lit("\n\n"),
         Lit("*Updated: "), Num("toLocaleString", now), Lit("*")>>)

\* the forEach body of index.ts 275-281
ForecastDayText(forecast, index, units) ==
  <<Lit("**Day "), Num("", index), Lit(" - "), Num("toLocaleDateString", forecast.date),
    Lit("**\n"),
    Lit("**Temperature:** "), Num("tenths", forecast.min), Str(UnitsDisplay(units)),
    Lit(" - "), Num("tenths", forecast.max), Str(UnitsDisplay(units)), Lit("\n"),
    Lit("**Condition:** "), Str(forecast.description), Lit("\n"),
    Lit("**Humidity:** "), Num("", forecast.humidity), Lit("%\n"),
    Lit("**Wind Speed:** "), Num("tenths", forecast.windSpeed), Lit(" "),
    Str(WindUnits(units)), Lit("\n\n")>>

RECURSIVE ForecastDaysText(_, _, _)
ForecastDaysText(forecasts, from, units) ==
  IF from > Len(forecasts) THEN <<>>
  ELSE ForecastDayText(forecasts[from], from, units)
         \o ForecastDaysText(forecasts, from + 1, units)

\* index.ts 259-290
getWeatherForecastFinish(args, data) ==
  LET p == GetWeatherForecastSchema(args)
      units == p.units.s
  IN IF data.kind = "invalid" THEN Threw(InvalidJson)
     ELSE IF ~data.hasList THEN Threw(TypeError)
     ELSE LET dailyForecasts == processForecastData(data.list, p.days.n)
          IN IF dailyForecasts.threw \/ ~data.hasCity THEN Threw(TypeError)
             ELSE Returned(Trim(
               <<Lit("**"), Num("halves", p.days.n), Lit("-Day Weather Forecast for "),
                 Str(data.cityName), Lit(", "), Str(data.cityCountry), Lit("**"),
                 Lit("\n\n")>>
               \o ForecastDaysText(dailyForecasts.days, 1, units)))

\* the forEach body of index.ts 330-337
LocationText(location, index) ==
  (IF location.state.t = "string" /\ location.state.s # ""
   THEN <<Num("", index), Lit(". **"), Str(location.name), Lit(", "),
          Str(location.state.s), Lit(", "), Str(location.country), Lit("**\n")>>
   ELSE <<Num("", index), Lit(". **"), Str(location.name), Lit(", "),
          Str(location.country), Lit("**\n")>>)
  \o <<Lit("   Coordinates: "), Num("1/10000", toFixed4(location.lat)), Lit(", "),
       Num("1/10000", toFixed4(location.lon)), Lit("\n\n")>>

RECURSIVE LocationsText(_, _)
LocationsText(locations, from) ==
  IF from > Len(locations) THEN <<>>
  ELSE LocationText(locations[from], from) \o LocationsText(locations, from + 1)

\* a variant of searchLocationsFinish that throws on an empty array
searchLocationsFinishEmptyThrows(args, data) ==
  IF data.kind = "invalid" THEN Threw(InvalidJson)
  ELSE IF data.kind # "array" THEN Threw(TypeError)
  ELSE IF Len(data.items) = 0
    THEN Threw(ErrorOf(<<Lit("No locations found for \""),
                         Str(SearchLocationSchema(args).query.s), Lit("\"")>>))
  ELSE IF \E i \in DOMAIN data.items : ~data.items[i].hasCoords THEN Threw(TypeError)
  ELSE Returned(Trim(
    <<Lit("**Found "), Num("", Len(data.items)), Lit(" location(s) for \""),
      Str(SearchLocationSchema(args).query.s), Lit("\":**"), Lit("\n\n")>>
    \o LocationsText(data.items, 1)))

\* index.ts 307-346
searchLocationsFinish(args, data) ==
  LET query == SearchLocationSchema(args).query.s
  IN IF data.kind = "invalid" THEN Threw(InvalidJson)
     ELSE IF data.kind # "array" THEN Threw(TypeError)
     ELSE IF Len(data.items) = 0
       THEN Returned(<<Lit("No locations found for \""), Str(query),
                       Lit("\". Please try a different search term.")>>)
     ELSE IF \E i \in DOMAIN data.items : ~data.items[i].hasCoords THEN Threw(TypeError)
     ELSE Returned(Trim(
       <<Lit("**Found "), Num("", Len(data.items)), Lit(" location(s) for \""),
         Str(query), Lit("\":**"), Lit("\n\n")>>
       \o LocationsText(data.items, 1)))

\* ----------------------------------------------------------- the dispatcher
\* index.ts 89-162: the result of the tools/list handler
ListTools ==
  <<[name |-> "get_current_weather", properties |-> <<"location", "units">>,
     required |-> <<"location">>],
    [name |-> "get_weather_forecast", properties |-> <<"location", "days", "units">>,
     required |-> <<"location">>],
    [name |-> "search_locations", properties |-> <<"query", "limit">>,
     required |-> <<"query">>]>>

UnknownTool(name) == ErrorOf(<<Lit("Unknown tool: "), Str(name)>>)

\* a variant of Dispatch whose switch lacks the search_locations case
DispatchWithoutSearch(name, args, key) ==
  CASE name = "get_current_weather" -> getCurrentWeatherStart(args, key)
    [] name = "get_weather_forecast" -> getWeatherForecastStart(args, key)
    [] OTHER -> ThrewBeforeFetch(ErrorOf(<<Lit("Unknown tool: "), Str(name)>>))

\* index.ts 169-178: the switch, up to the handler's first await
Dispatch(name, args, key) ==
  CASE name = "get_current_weather" -> getCurrentWeatherStart(args, key)
    [] name = "get_weather_forecast" -> getWeatherForecastStart(args, key)
    [] name = "search_locations" -> searchLocationsStart(args, key)
    [] OTHER -> ThrewBeforeFetch(UnknownTool(name))

\* the handler resumed by the settled fetch
StatusCheck(name, args, reply) ==
  CASE name = "get_current_weather" ->
         WeatherStatusCheck(GetCurrentWeatherSchema(args).location.s, reply)
    [] name = "get_weather_forecast" ->
         WeatherStatusCheck(GetWeatherForecastSchema(args).location.s, reply)
    [] OTHER -> GeocodingStatusCheck(reply)

\* the handler resumed by the settled response.json()
Finish(name, args, data, now) ==
  CASE name = "get_current_weather" -> getCurrentWeatherFinish(args, data, now)
    [] name = "get_weather_forecast" -> getWeatherForecastFinish(args, data)
    [] OTHER -> searchLocationsFinish(args, data)

\* a variant of CatchBlock that rethrows what is no validation error
CatchBlockRethrows(error) ==
  IF error.message # <<>> /\ error.message[1].k \in {"invalid_type", "too_small", "too_big"}
  THEN [rejected |-> FALSE, content |-> TextContent(<<Lit("Error: ")>> \o error.message)]
  ELSE [rejected |-> TRUE, content |-> <<>>]

\* index.ts 179-189: the catch block
CatchBlock(error) ==
  [rejected |-> FALSE,
   content |-> TextContent(<<Lit("Error: ")>> \o
                 (IF error.isError THEN error.message
                  ELSE <<Lit("Unknown error occurred")>>))]

Resolved(content) == [rejected |-> FALSE, content |-> content]
NoResponse == [rejected |-> FALSE, content |-> <<>>]

\* ------------------------------------------------------------------ inputs
ToolNames == {"get_current_weather", "get_weather_forecast", "search_locations"}
OtherNames == {"get_weather", ""}

LocationArgs == {Undefined, JsNum(2), JsStr("London"), JsStr("New York"), JsStr(LoneSurrogate)}
UnitsArgs == {Undefined, Null, JsStr("metric"), JsStr("imperial"), JsStr("kelvin"),
              JsStr("celsius")}
\* 1/2, 1, 3/2, 5/2, 5, 11/2 days, a string, or omitted
DaysArgs == {Undefined, JsStr("3"), JsNum(1), JsNum(2), JsNum(3), JsNum(5), JsNum(10),
             JsNum(11)}
QueryArgs == {Undefined, JsNum(2), JsStr(""), JsStr("Springfield"), JsStr(LoneSurrogate)}
\* 1/2, 1, 3/2, 10, 21/2 results, null, or omitted
LimitArgs == {Undefined, Null, JsNum(1), JsNum(2), JsNum(3), JsNum(20), JsNum(21)}

Bag(location, units, days, query, limit) ==
  [present |-> TRUE, location |-> location, units |-> units, days |-> days,
   query |-> query, limit |-> limit]

\* the bags a request may carry: the keys of the tool's schema vary, and a
\* key of another tool's schema is stripped by the parse
ArgsFor(name) ==
  {NoArgs} \cup
  (CASE name = "get_current_weather" ->
          {Bag(l, u, Undefined, q, Undefined) :
             l \in LocationArgs, u \in UnitsArgs, q \in {Undefined, JsStr("")}}
     [] name = "get_weather_forecast" ->
          {Bag(l, u, d, Undefined, Undefined) :
             l \in LocationArgs, u \in UnitsArgs, d \in DaysArgs}
     [] name = "search_locations" ->
          {Bag(Undefined, Undefined, Undefined, q, m) : q \in QueryArgs, m \in LimitArgs}
     [] OTHER -> {Bag(JsStr("London"), Undefined, Undefined, Undefined, Undefined)})

StatusText(status) ==
  CASE status = 200 -> "OK"
    [] status = 401 -> "Unauthorized"
    [] status = 404 -> "Not Found"
    [] OTHER -> "Internal Server Error"

FetchReplies ==
  {[kind |-> "rejected", status |-> 0, statusText |-> ""]} \cup
  {[kind |-> "response", status |-> st, statusText |-> StatusText(st)] :
     st \in {200, 401, 404, 500}}

Entry(dt, temp, desc, humidity, wind) ==
  [dt |-> dt, complete |-> TRUE, temp |-> temp, desc |-> desc, humidity |-> humidity,
   wind |-> wind]

\* three-hourly entries of three UTC days; the last lacks its "main" object
EntrySamples ==
  {Entry(0, 41, JsStr("rain"), 40, 4),
   Entry(43200, 50, JsStr("clear sky"), 45, 5),
   Entry(86399, 0 - 3, JsStr("rain"), 81, 13),
   Entry(86400, 7, JsStr(""), 50, 8),
   Entry(129600, 6, Undefined, 53, 9),
   Entry(172800, 90, JsStr("clear sky"), 60, 2),
   [Entry(183600, 0, JsStr("rain"), 0, 0) EXCEPT !.complete = FALSE]}

RECURSIVE SeqsUpTo(_, _)
SeqsUpTo(S, n) ==
  IF n = 0 THEN {<<>>}
  ELSE LET shorter == SeqsUpTo(S, n - 1)
       IN shorter \cup {Append(s, x) : s \in shorter, x \in S}

ForecastPayloads ==
  {[kind |-> "invalid", hasList |-> FALSE, list |-> <<>>, hasCity |-> FALSE,
    cityName |-> "", cityCountry |-> ""],
   [kind |-> "json", hasList |-> FALSE, list |-> <<>>, hasCity |-> TRUE,
    cityName |-> "London", cityCountry |-> "GB"],
   [kind |-> "json", hasList |-> TRUE, list |-> <<>>, hasCity |-> FALSE,
    cityName |-> "", cityCountry |-> ""]} \cup
  {[kind |-> "json", hasList |-> TRUE, list |-> l, hasCity |-> TRUE,
    cityName |-> "London", cityCountry |-> "GB"] : l \in SeqsUpTo(EntrySamples, MaxList)}

CurrentPayloads ==
  {[kind |-> "invalid", complete |-> FALSE, name |-> "", country |-> "", temp |-> 0,
    desc |-> "", humidity |-> 0, wind |-> 0],
   [kind |-> "json", complete |-> FALSE, name |-> "London", country |-> "", temp |-> 0,
    desc |-> "", humidity |-> 0, wind |-> 0]} \cup
  {[kind |-> "json", complete |-> TRUE, name |-> "London", country |-> "GB", temp |-> t,
    desc |-> "rain", humidity |-> 40, wind |-> 5] : t \in {0 - 3, 41, 50}}

Candidate(name, state, lat, lon) ==
  [name |-> name, country |-> "US", state |-> state, hasCoords |-> TRUE,
   lat |-> lat, lon |-> lon]

\* coordinates in 1/32 degree; the last lacks lat and lon
CandidateSamples ==
  {Candidate("Springfield", JsStr("Illinois"), 1273, 0 - 2869),
   Candidate("Springfield", JsStr("Missouri"), 1191, 0 - 2985),
   Candidate("Springfield", Undefined, 1349, 0 - 2323),
   [Candidate("Springfield", Undefined, 0, 0) EXCEPT !.hasCoords = FALSE]}

GeoPayloads ==
  {[kind |-> "invalid", items |-> <<>>], [kind |-> "object", items |-> <<>>]} \cup
  {[kind |-> "array", items |-> l] : l \in SeqsUpTo(CandidateSamples, MaxCand)}

PayloadsFor(name) ==
  CASE name = "get_current_weather" -> CurrentPayloads
    [] name = "get_weather_forecast" -> ForecastPayloads
    [] OTHER -> GeoPayloads

ClockValues == {1, 2}

\* ------------------------------------------------------------------- state
CallIds == {1}

VARIABLES
  OPENWEATHER_API_KEY,  \* the credential read at start-up, "" when not set
  pc,        \* per call: "idle", "fetch" (awaiting fetch), "json" (awaiting json()),
             \* "catch" (the method's promise rejected, the catch not yet run),
             \* "resume" (the method returned, the handler not yet resumed), "done"
  req,       \* per call: the tools/call request, [name, args]
  fetched,   \* per call: the outbound requests the call has issued
  upstream,  \* per call: what the upstream answered, [reply, data]
  resp,      \* per call: the settled result of the call-tool handler
  thrown,    \* per call: the error the method's promise rejected with
  returned,  \* per call: the content the method's promise was fulfilled with
  listed     \* the result of the latest tools/list request, <<>> before the first

vars == <<OPENWEATHER_API_KEY, localBehindUTC, pc, req, fetched, upstream, resp, thrown, returned, listed>>

NoReply == [kind |-> "none", status |-> 0, statusText |-> ""]
NoData == [kind |-> "none"]
NoUpstream == [reply |-> NoReply, data |-> NoData]
NoRequest == [name |-> "", args |-> NoArgs]

Init ==
  /\ OPENWEATHER_API_KEY \in {"", "test-key"}
  /\ localBehindUTC \in BOOLEAN
  /\ pc = [c \in CallIds |-> "idle"]
  /\ req = [c \in CallIds |-> NoRequest]
  /\ fetched = [c \in CallIds |-> <<>>]
  /\ upstream = [c \in CallIds |-> NoUpstream]
  /\ resp = [c \in CallIds |-> NoResponse]
  /\ thrown = [c \in CallIds |-> NoError]
  /\ returned = [c \in CallIds |-> <<>>]
  /\ listed = <<>>

\* tools/list
ListToolsRequest ==
  /\ listed' = ListTools
  /\ UNCHANGED <<OPENWEATHER_API_KEY, localBehindUTC, pc, req, fetched, upstream, resp, thrown, returned>>

\* the call-tool handler of call c runs from the request to its first await:
\* to "await fetch" inside the method, or, when the method throws before the
\* fetch, to the handler's own await of the rejected promise of the method;
\* the throw of the default case is inside the handler's try and is caught in
\* the same job
HandlerStarts(c, name, args) ==
  /\ pc[c] = "idle"
  /\ LET start == Dispatch(name, args, OPENWEATHER_API_KEY)
     IN /\ req' = [req EXCEPT ![c] = [name |-> name, args |-> args]]
        /\ upstream' = [upstream EXCEPT ![c] = NoUpstream]
        /\ IF start.threw /\ name \notin ToolNames
           THEN /\ pc' = [pc EXCEPT ![c] = "done"]
                /\ fetched' = [fetched EXCEPT ![c] = <<>>]
                /\ resp' = [resp EXCEPT ![c] = CatchBlock(start.error)]
                /\ thrown' = [thrown EXCEPT ![c] = NoError]
           ELSE IF start.threw
           THEN /\ pc' = [pc EXCEPT ![c] = "catch"]
                /\ fetched' = [fetched EXCEPT ![c] = <<>>]
                /\ resp' = [resp EXCEPT ![c] = NoResponse]
                /\ thrown' = [thrown EXCEPT ![c] = start.error]
           ELSE /\ pc' = [pc EXCEPT ![c] = "fetch"]
                /\ fetched' = [fetched EXCEPT ![c] = <<start.url>>]
                /\ resp' = [resp EXCEPT ![c] = NoResponse]
                /\ thrown' = [thrown EXCEPT ![c] = NoError]
  /\ UNCHANGED <<OPENWEATHER_API_KEY, localBehindUTC, returned, listed>>

\* a variant of FetchResolves in which a call waits for the calls before it
FetchResolvesInTurn(c, reply) ==
  /\ pc[c] = "fetch"
  /\ \A d \in DOMAIN pc : d < c => pc[d] \notin {"fetch", "json"}
  /\ LET check == StatusCheck(req[c].name, req[c].args, reply)
     IN /\ upstream' = [upstream EXCEPT ![c] = [reply |-> reply, data |-> NoData]]
        /\ IF check.threw
           THEN /\ pc' = [pc EXCEPT ![c] = "catch"]
                /\ thrown' = [thrown EXCEPT ![c] = check.error]
           ELSE /\ pc' = [pc EXCEPT ![c] = "json"]
                /\ UNCHANGED thrown
  /\ UNCHANGED <<OPENWEATHER_API_KEY, localBehindUTC, req, fetched, resp, returned, listed>>

\* the fetch of call c settles with reply and the method runs on to
\* response.json(), or throws and its promise rejects
FetchResolves(c, reply) ==
  /\ pc[c] = "fetch"
  /\ LET check == StatusCheck(req[c].name, req[c].args, reply)
     IN /\ upstream' = [upstream EXCEPT ![c] = [reply |-> reply, data |-> NoData]]
        /\ IF check.threw
           THEN /\ pc' = [pc EXCEPT ![c] = "catch"]
                /\ thrown' = [thrown EXCEPT ![c] = check.error]
           ELSE /\ pc' = [pc EXCEPT ![c] = "json"]
                /\ UNCHANGED thrown
  /\ UNCHANGED <<OPENWEATHER_API_KEY, localBehindUTC, req, fetched, resp, returned, listed>>

\* a variant of JsonResolves that formats with the arguments of the latest
\* request of any call
JsonResolvesSharedArgs(c, data, now) ==
  /\ pc[c] = "json"
  /\ LET last == CHOOSE d \in DOMAIN pc : \A e \in DOMAIN pc : e <= d
         out == Finish(req[c].name,
                       IF req[last].name = req[c].name THEN req[last].args ELSE req[c].args,
                       data, now)
     IN /\ upstream' = [upstream EXCEPT ![c].data = data]
        /\ IF out.threw
           THEN /\ pc' = [pc EXCEPT ![c] = "catch"]
                /\ thrown' = [thrown EXCEPT ![c] = out.error]
                /\ UNCHANGED returned
           ELSE /\ pc' = [pc EXCEPT ![c] = "resume"]
                /\ returned' = [returned EXCEPT ![c] = out.content]
                /\ UNCHANGED thrown
  /\ UNCHANGED <<OPENWEATHER_API_KEY, localBehindUTC, req, fetched, resp, listed>>

\* response.json() of call c settles with data at time now and the method
\* runs to its return, which fulfils its promise, or throws and its promise
\* rejects
JsonResolves(c, data, now) ==
  /\ pc[c] = "json"
  /\ LET out == Finish(req[c].name, req[c].args, data, now)
     IN /\ upstream' = [upstream EXCEPT ![c].data = data]
        /\ IF out.threw
           THEN /\ pc' = [pc EXCEPT ![c] = "catch"]
                /\ thrown' = [thrown EXCEPT ![c] = out.error]
                /\ UNCHANGED returned
           ELSE /\ pc' = [pc EXCEPT ![c] = "resume"]
                /\ returned' = [returned EXCEPT ![c] = out.content]
                /\ UNCHANGED thrown
  /\ UNCHANGED <<OPENWEATHER_API_KEY, localBehindUTC, req, fetched, resp, listed>>

\* the handler resumes from its await of the rejected promise of the method:
\* the catch block makes the error response
CatchRuns(c) ==
  /\ pc[c] = "catch"
  /\ pc' = [pc EXCEPT ![c] = "done"]
  /\ resp' = [resp EXCEPT ![c] = CatchBlock(thrown[c])]
  /\ thrown' = [thrown EXCEPT ![c] = NoError]
  /\ UNCHANGED <<OPENWEATHER_API_KEY, localBehindUTC, req, fetched, upstream, returned, listed>>

\* the handler resumes from its await of the fulfilled promise of the method
\* and returns the method's result
HandlerResumes(c) ==
  /\ pc[c] = "resume"
  /\ pc' = [pc EXCEPT ![c] = "done"]
  /\ resp' = [resp EXCEPT ![c] = Resolved(returned[c])]
  /\ returned' = [returned EXCEPT ![c] = <<>>]
  /\ UNCHANGED <<OPENWEATHER_API_KEY, localBehindUTC, req, fetched, upstream, thrown, listed>>

\* tools/call arrives: the handler runs to its first await or to its end
CallToolRequest(c) ==
  /\ pc[c] = "idle"
  /\ \E name \in ToolNames \cup OtherNames :
       \E args \in ArgsFor(name) : HandlerStarts(c, name, args)

\* the fetch settles: rejected, or fulfilled with a status
FetchSettled(c) ==
  /\ pc[c] = "fetch"
  /\ \E reply \in FetchReplies : FetchResolves(c, reply)

\* response.json() settles: the handler runs to its end
JsonSettled(c) ==
  /\ pc[c] = "json"
  /\ \E data \in PayloadsFor(req[c].name), now \in ClockValues : JsonResolves(c, data, now)

\* the response is written to the transport and the call's data is dropped
ResponseSent(c) ==
  /\ pc[c] = "done"
  /\ pc' = [pc EXCEPT ![c] = "idle"]
  /\ req' = [req EXCEPT ![c] = NoRequest]
  /\ fetched' = [fetched EXCEPT ![c] = <<>>]
  /\ upstream' = [upstream EXCEPT ![c] = NoUpstream]
  /\ resp' = [resp EXCEPT ![c] = NoResponse]
  /\ thrown' = [thrown EXCEPT ![c] = NoError]
  /\ returned' = [returned EXCEPT ![c] = <<>>]
  /\ UNCHANGED <<OPENWEATHER_API_KEY, localBehindUTC, listed>>

Next ==
  \/ ListToolsRequest
  \/ \E c \in CallIds : CallToolRequest(c)
  \/ \E c \in CallIds : FetchSettled(c)
  \/ \E c \in CallIds : JsonSettled(c)
  \/ \E c \in CallIds : CatchRuns(c)
  \/ \E c \in CallIds : HandlerResumes(c)
  \/ \E c \in CallIds : ResponseSent(c)

Spec == Init /\ [][Next]_vars

\* ------------------------------------------------- two calls in flight
\* The handlers are async functions on one event loop: a second request is
\* taken while the first awaits its fetch, and each continuation runs when
\* its own promise settles.
ConcIds == {1, 2}

ConcRequests ==
  {[name |-> "get_current_weather",
    args |-> Bag(JsStr("London"), Undefined, Undefined, Undefined, Undefined)],
   [name |-> "get_current_weather",
    args |-> Bag(JsNum(2), Undefined, Undefined, Undefined, Undefined)],
   [name |-> "get_weather_forecast",
    args |-> Bag(JsStr("London"), JsStr("imperial"), JsNum(2), Undefined, Undefined)],
   [name |-> "get_weather_forecast",
    args |-> Bag(JsStr("London"), Undefined, JsNum(2), Undefined, Undefined)],
   [name |-> "search_locations",
    args |-> Bag(Undefined, Undefined, Undefined, JsStr("Springfield"), Undefined)],
   [name |-> "get_weather", args |-> NoArgs]}

ConcReplies == {r \in FetchReplies : r.status \in {200, 404}}

ConcPayloadsFor(name) ==
  CASE name = "get_current_weather" ->
         {d \in CurrentPayloads : d.kind = "invalid" \/ (d.complete /\ d.temp = 41)}
    [] name = "get_weather_forecast" ->
         {d \in ForecastPayloads : d.hasCity /\ Len(d.list) = 1 /\ d.list[1].dt = 86400}
    [] OTHER -> {d \in GeoPayloads : d.kind = "array" /\ d.items = <<>>}

InitConc ==
  /\ OPENWEATHER_API_KEY \in {"", "test-key"}
  /\ localBehindUTC \in BOOLEAN
  /\ pc = [c \in ConcIds |-> "idle"]
  /\ req = [c \in ConcIds |-> NoRequest]
  /\ fetched = [c \in ConcIds |-> <<>>]
  /\ upstream = [c \in ConcIds |-> NoUpstream]
  /\ resp = [c \in ConcIds |-> NoResponse]
  /\ thrown = [c \in ConcIds |-> NoError]
  /\ returned = [c \in ConcIds |-> <<>>]
  /\ listed = <<>>

ConcCallToolRequest(c) ==
  /\ pc[c] = "idle"
  /\ \E r \in ConcRequests : HandlerStarts(c, r.name, r.args)

ConcFetchSettled(c) ==
  /\ pc[c] = "fetch"
  /\ \E reply \in ConcReplies : FetchResolves(c, reply)

ConcJsonSettled(c) ==
  /\ pc[c] = "json"
  /\ \E data \in ConcPayloadsFor(req[c].name), now \in ClockValues :
       JsonResolves(c, data, now)

NextConc ==
  \/ ListToolsRequest
  \/ \E c \in ConcIds : ConcCallToolRequest(c)
  \/ \E c \in ConcIds : ConcFetchSettled(c)
  \/ \E c \in ConcIds : ConcJsonSettled(c)
  \/ \E c \in ConcIds : CatchRuns(c)
  \/ \E c \in ConcIds : HandlerResumes(c)
  \/ \E c \in ConcIds : ResponseSent(c)

SpecConc == InitConc /\ [][NextConc]_vars

\* The reply to call 1 may never arrive; the reply to call 2 arrives, and
\* the event loop then runs the continuation of call 2. The resumption of a
\* handler from a settled method promise is a microtask, which the event
\* loop always runs.
FairConc ==
  /\ SpecConc
  /\ WF_vars(ConcFetchSettled(2)) /\ WF_vars(ConcJsonSettled(2))
  /\ \A c \in ConcIds : WF_vars(CatchRuns(c)) /\ WF_vars(HandlerResumes(c))

\* ======================================================================
\* Properties
\* ======================================================================
Done(c) == pc[c] = "done"
TextOf(c) == resp[c].content[1].text

\* a content list of exactly one text block
WellFormed(r) == ~r.rejected /\ Len(r.content) = 1 /\ r.content[1].type = "text"

\* the text starts with "Error: "
IsErrorResponse(r) ==
  WellFormed(r) /\ r.content[1].text # <<>> /\ r.content[1].text[1] = Lit("Error: ")

HasToken(text, tok) == \E i \in DOMAIN text : text[i] = tok

\* the schema as the documentation states it, on an argument bag
NotAString(v) == v.t # "string"
BadUnits(v) == v.t # "undefined" /\ (v.t # "string" \/ v.s \notin {"metric", "imperial", "kelvin"})
BadNumber(v, lo, hi) ==
  v.t # "undefined" /\ (v.t # "number" \/ v.n < lo * ArgScale \/ v.n > hi * ArgScale)

ViolatesSchema(name, args) ==
  \/ ~args.present
  \/ name = "get_current_weather" /\ (NotAString(args.location) \/ BadUnits(args.units))
  \/ name = "get_weather_forecast"
       /\ (NotAString(args.location) \/ BadUnits(args.units) \/ BadNumber(args.days, 1, 5))
  \/ name = "search_locations" /\ (NotAString(args.query) \/ BadNumber(args.limit, 1, 10))

AnIssue(tok) == tok.k \in {"invalid_type", "invalid_enum_value", "too_small", "too_big"}

\* the text is "Error: " followed by validation issues only
IsValidationError(r) ==
  /\ IsErrorResponse(r)
  /\ Len(r.content[1].text) >= 2
  /\ \A i \in 2..Len(r.content[1].text) : AnIssue(r.content[1].text[i])

\* something failed in the call: the name, the arguments, the credential, the
\* fetch, the status, the body or the fields the handler reads
CallFailed(c) ==
  \/ req[c].name \notin ToolNames
  \/ ViolatesSchema(req[c].name, req[c].args)
  \/ OPENWEATHER_API_KEY = ""
  \/ HasToken(<<req[c].args.location, req[c].args.query>>, JsStr(LoneSurrogate))
  \/ upstream[c].reply.kind = "rejected"
  \/ upstream[c].reply.kind = "response" /\ ~(upstream[c].reply.status \in 200..299)
  \/ upstream[c].data.kind \in {"invalid", "object"}
  \/ req[c].name = "get_current_weather" /\ upstream[c].data.kind = "json"
       /\ ~upstream[c].data.complete
  \/ req[c].name = "get_weather_forecast" /\ upstream[c].data.kind = "json"
       /\ (~upstream[c].data.hasList \/ ~upstream[c].data.hasCity)
  \/ req[c].name = "search_locations" /\ upstream[c].data.kind = "array"
       /\ \E i \in DOMAIN upstream[c].data.items : ~upstream[c].data.items[i].hasCoords

\* C1: every settled tools/call has a well-formed response of one text block,
\* never a propagated error, and when the validation, the credential check,
\* the upstream call or the handler failed its text starts with "Error: ".
C1_AlwaysWellFormedResponse ==
  \A c \in CallIds :
    /\ ~resp[c].rejected
    /\ Done(c) => WellFormed(resp[c])
    /\ Done(c) /\ CallFailed(c) => IsErrorResponse(resp[c])

\* C1 witness: a forecast body without its list ended in an "Error: " text.
C1_Witness ==
  \E c \in CallIds :
    /\ Done(c) /\ req[c].name = "get_weather_forecast"
    /\ upstream[c].data.kind = "json" /\ ~upstream[c].data.hasList
    /\ IsErrorResponse(resp[c])

\* C2: without a credential no call of the three tools issues an outbound
\* request, and each ends in an error response.
C2_NoCredentialNoRequest ==
  OPENWEATHER_API_KEY = "" =>
    \A c \in CallIds :
      req[c].name \in ToolNames =>
        /\ fetched[c] = <<>>
        /\ pc[c] \notin {"fetch", "json"}
        /\ Done(c) => IsErrorResponse(resp[c])

\* C2 witness: a valid forecast call without credential ended in the
\* credential error.
C2_Witness ==
  \E c \in CallIds :
    /\ OPENWEATHER_API_KEY = "" /\ Done(c)
    /\ req[c].name = "get_weather_forecast"
    /\ ~ViolatesSchema(req[c].name, req[c].args)
    /\ resp[c] = CatchBlock(NoKeyError)

\* --------------------------------------------------- reading a forecast text
IsForecastResult(c) ==
  Done(c) /\ req[c].name = "get_weather_forecast" /\ ~IsErrorResponse(resp[c])

\* the day entries of a forecast text
DayEntries(text) == {i \in DOMAIN text : text[i] = Lit("**Day ")}
DayCount(text) == Cardinality(DayEntries(text))

\* the distinct UTC calendar dates of an upstream list
DatesOf(list) == {list[i].dt \div 86400 : i \in DOMAIN list}

\* the days value the validator accepted, in halves (3 when omitted)
AcceptedDays(args) == IF args.days.t = "undefined" THEN 3 * ArgScale ELSE args.days.n

MinOf(a, b) == IF a < b THEN a ELSE b

\* C3: a forecast result has exactly min(D, K) day entries, D the accepted
\* days value and K the number of distinct dates of the upstream list.
C3_ExactlyMinDaysEntries ==
  \A c \in CallIds :
    IsForecastResult(c) =>
      DayCount(TextOf(c)) * ArgScale
        = MinOf(AcceptedDays(req[c].args),
                Cardinality(DatesOf(upstream[c].data.list)) * ArgScale)

\* C4: an argument bag that violates the tool's schema ends the call at once
\* in an error response that carries the validation issues and nothing else,
\* with no outbound request; an omitted optional field takes its default
\* (units metric, days 3, limit 5) in the request sent and the text returned.
C4_InvalidArgumentsRejected ==
  \A c \in CallIds :
    req[c].name \in ToolNames =>
      /\ ViolatesSchema(req[c].name, req[c].args) =>
           /\ pc[c] \in {"catch", "done"}
           /\ fetched[c] = <<>>
           /\ pc[c] = "catch" => IsValidationError(CatchBlock(thrown[c]))
           /\ Done(c) => IsValidationError(resp[c])
      /\ fetched[c] # <<>> =>
           /\ req[c].name # "search_locations" /\ req[c].args.units.t = "undefined"
                => fetched[c][1].units = "metric"
           /\ req[c].name = "search_locations" /\ req[c].args.limit.t = "undefined"
                => fetched[c][1].limit = 5 * ArgScale
      /\ IsForecastResult(c) /\ req[c].args.days.t = "undefined" =>
           /\ TextOf(c)[2] = Num("halves", 3 * ArgScale)
           /\ DayCount(TextOf(c))
                = MinOf(3, Cardinality(DatesOf(upstream[c].data.list)))

\* C4 witness: a forecast call with days = 5.5 and no credential ended in the
\* validation error.
C4_Witness ==
  \E c \in CallIds :
    /\ Done(c) /\ req[c].name = "get_weather_forecast"
    /\ req[c].args.days = JsNum(11) /\ OPENWEATHER_API_KEY = ""
    /\ resp[c] = CatchBlock(ErrorOf(<<Issue("too_big", "days")>>))

\* the second case of C4: a forecast call without days and units returned
\* three days
C4_DefaultsReached ==
  \E c \in CallIds :
    /\ IsForecastResult(c)
    /\ req[c].args.days.t = "undefined" /\ req[c].args.units.t = "undefined"
    /\ DayCount(TextOf(c)) = 3

\* C5: with a credential and valid arguments, get_current_weather and
\* get_weather_forecast answer status 404 with an error text that says "not
\* found" and names the location, any other non-success status with an error
\* text that holds the status code, and give a formatted result only after a
\* success status.
C5_StatusTranslation ==
  \A c \in CallIds :
    req[c].name \in {"get_current_weather", "get_weather_forecast"} =>
      LET reply == upstream[c].reply
          nonSuccess == reply.kind = "response" /\ ~(reply.status \in 200..299)
      IN /\ nonSuccess => pc[c] \in {"catch", "done"}
         /\ Done(c) /\ nonSuccess /\ reply.status = 404 =>
              /\ IsErrorResponse(resp[c])
              /\ HasToken(TextOf(c), Lit("\" not found. Please check the spelling and try again."))
              /\ HasToken(TextOf(c), Str(req[c].args.location.s))
         /\ Done(c) /\ nonSuccess /\ reply.status # 404 =>
              /\ IsErrorResponse(resp[c])
              /\ HasToken(TextOf(c), Num("status", reply.status))
         /\ Done(c) /\ ~IsErrorResponse(resp[c]) =>
              reply.kind = "response" /\ reply.status \in 200..299

\* C5 witness: a forecast call answered 404 for "New York".
C5_Witness ==
  \E c \in CallIds :
    /\ Done(c) /\ req[c].name = "get_weather_forecast"
    /\ upstream[c].reply.status = 404
    /\ req[c].args.location.s = "New York"
    /\ HasToken(TextOf(c), Str("New York"))

\* C6: search_locations answered with an empty array gives a normal response
\* that reports no locations were found for the query, never an "Error: "
\* text, the empty query included.
C6_EmptyResultIsNotAnError ==
  \A c \in CallIds :
    /\ Done(c) /\ req[c].name = "search_locations"
    /\ upstream[c].data.kind = "array" /\ upstream[c].data.items = <<>>
    => /\ WellFormed(resp[c])
       /\ ~IsErrorResponse(resp[c])
       /\ TextOf(c) = <<Lit("No locations found for \""), Str(req[c].args.query.s),
                        Lit("\". Please try a different search term.")>>

\* C6 witness: the empty query got the empty array.
C6_Witness ==
  \E c \in CallIds :
    /\ Done(c) /\ req[c].name = "search_locations"
    /\ req[c].args.query = JsStr("")
    /\ upstream[c].data.kind = "array" /\ upstream[c].data.items = <<>>

\* ----------------------------------------------------- reading a search text
IsSearchResult(c) ==
  Done(c) /\ req[c].name = "search_locations" /\ ~IsErrorResponse(resp[c])

\* the locations a search text lists: its coordinate lines
LocationCount(text) ==
  Cardinality({i \in DOMAIN text : text[i] = Lit("   Coordinates: ")})

AcceptedLimit(args) == IF args.limit.t = "undefined" THEN 5 * ArgScale ELSE args.limit.n

\* C7: a search result lists at most L locations, L the accepted limit.
C7_AtMostLimitLocations ==
  \A c \in CallIds :
    IsSearchResult(c) => LocationCount(TextOf(c)) * ArgScale <= AcceptedLimit(req[c].args)

\* ------------------------------------------------ reading a forecast day
\* the i-th day entry of a forecast text, as the tokens say it
DayAt(text, i) ==
  LET at == CHOOSE j \in DayEntries(text) : text[j + 1] = Num("", i)
  IN [date |-> text[at + 3].n, min |-> text[at + 6].n, max |-> text[at + 9].n,
      description |-> text[at + 13].s, humidity |-> text[at + 16].n,
      windSpeed |-> text[at + 19].n]

\* the position at which each distinct date of a list first appears
FirstPositions(list) ==
  {i \in DOMAIN list : \A j \in 1..(i - 1) : list[j].dt \div 86400 # list[i].dt \div 86400}

\* the n-th distinct UTC calendar date of a list, in order of first appearance
NthDate(list, n) ==
  LET at == CHOOSE i \in FirstPositions(list) :
              Cardinality({j \in FirstPositions(list) : j <= i}) = n
  IN list[at].dt \div 86400

\* the positions of the upstream entries of a calendar date
EntriesOn(list, date) == {i \in DOMAIN list : list[i].dt \div 86400 = date}

\* how many entries of the date carry the label of entry i
Frequency(list, date, i) ==
  Cardinality({j \in EntriesOn(list, date) : list[j].desc = list[i].desc})

\* the entries of the date whose label has maximal frequency
MaxFrequent(list, date) ==
  {i \in EntriesOn(list, date) :
     \A j \in EntriesOn(list, date) : Frequency(list, date, j) <= Frequency(list, date, i)}

\* the label of the last entry among those of maximal frequency
LastMaxFrequentLabel(list, date) ==
  LET last == CHOOSE i \in MaxFrequent(list, date) :
                \A j \in MaxFrequent(list, date) : j <= i
  IN list[last].desc

\* C8 as stated: the description of every returned day is the label of the
\* last entry, in upstream order, among the entries of the date that carry a
\* label of maximal frequency.
C8_LastMaxFrequentLabel ==
  \A c \in CallIds :
    IsForecastResult(c) =>
      \A i \in 1..DayCount(TextOf(c)) :
        LET day == DayAt(TextOf(c), i)
            label == LastMaxFrequentLabel(upstream[c].data.list,
                                          NthDate(upstream[c].data.list, i))
        IN label.t = "string" /\ day.description = label.s

\* C8 amended: the same for a day whose entries all carry a description and
\* whose selected label is not empty; a day whose selected label is empty, or
\* one of whose entries lacks its description, reports "Unknown".
C8_LastMaxFrequentLabelOrUnknown ==
  \A c \in CallIds :
    IsForecastResult(c) =>
      \A i \in 1..DayCount(TextOf(c)) :
        LET list == upstream[c].data.list
            day == DayAt(TextOf(c), i)
            date == NthDate(list, i)
            label == LastMaxFrequentLabel(list, date)
            lacking == \E j \in EntriesOn(list, date) : list[j].desc.t = "undefined"
        IN day.description =
             IF lacking \/ label.s = "" THEN "Unknown" ELSE label.s

\* a day whose last two entries carry the label of maximal frequency
\* reported that label
C8_MajorityReached ==
  \E c \in CallIds :
    /\ IsForecastResult(c) /\ DayCount(TextOf(c)) >= 1
    /\ LET list == upstream[c].data.list
           day == DayAt(TextOf(c), 1)
       IN /\ Len(list) = 3 /\ EntriesOn(list, NthDate(list, 1)) = {1, 2, 3}
          /\ list[1].desc = JsStr("rain") /\ list[2].desc = JsStr("clear sky")
          /\ list[3].desc = JsStr("clear sky")
          /\ day.description = "clear sky"

\* C8 witness: a day of two entries with different labels, both of maximal
\* frequency, reported the label of the last entry.
C8_Witness ==
  \E c \in CallIds :
    /\ IsForecastResult(c) /\ DayCount(TextOf(c)) >= 1
    /\ LET list == upstream[c].data.list
           day == DayAt(TextOf(c), 1)
       IN /\ Len(list) = 2 /\ EntriesOn(list, NthDate(list, 1)) = {1, 2}
          /\ list[1].desc = JsStr("rain") /\ list[2].desc = JsStr("clear sky")
          /\ day.description = "clear sky"

\* C9: the minimum and maximum temperature of every returned day are the
\* least and the greatest temperature of the upstream entries of that date,
\* each rounded to one decimal, so that min <= max.
C9_MinMaxOfTheDate ==
  \A c \in CallIds :
    IsForecastResult(c) =>
      \A i \in 1..DayCount(TextOf(c)) :
        LET list == upstream[c].data.list
            day == DayAt(TextOf(c), i)
            on == EntriesOn(list, NthDate(list, i))
            lo == CHOOSE j \in on : \A k \in on : list[j].temp <= list[k].temp
            hi == CHOOSE j \in on : \A k \in on : list[k].temp <= list[j].temp
        IN /\ on # {}
           /\ day.min = (5 * list[lo].temp + 1) \div 2
           /\ day.max = (5 * list[hi].temp + 1) \div 2
           /\ day.min <= day.max

\* C9 witness: a day of two entries at 10.25 and -0.75 degrees, the colder
\* one last, reported -0.7 to 10.3 (Math.round rounds -7.5 up).
C9_Witness ==
  \E c \in CallIds :
    /\ IsForecastResult(c) /\ DayCount(TextOf(c)) >= 1
    /\ LET list == upstream[c].data.list
           day == DayAt(TextOf(c), 1)
       IN /\ Len(list) >= 2 /\ list[1].temp = 41 /\ list[2].temp = 0 - 3
          /\ EntriesOn(list, NthDate(list, 1)) = {1, 2}
          /\ day.min = 0 - 7 /\ day.max = 103

\* C10: tools/list always answers exactly the three tools; a tools/call with
\* one of these names never reports an unknown tool, and one with another
\* name ends at once in the unknown-tool error, whatever its arguments and
\* without an outbound request.
C10_FixedToolTable ==
  /\ listed # <<>> =>
       /\ Len(listed) = 3
       /\ {listed[i].name : i \in DOMAIN listed}
            = {"get_current_weather", "get_weather_forecast", "search_locations"}
  /\ \A c \in CallIds :
       /\ Done(c) /\ req[c].name
            \in {"get_current_weather", "get_weather_forecast", "search_locations"}
          => ~HasToken(TextOf(c), Lit("Unknown tool: "))
       /\ pc[c] # "idle" /\ req[c].name
            \notin {"get_current_weather", "get_weather_forecast", "search_locations"}
          => /\ Done(c)
             /\ fetched[c] = <<>>
             /\ TextOf(c) = <<Lit("Error: "), Lit("Unknown tool: "), Str(req[c].name)>>

\* C10 witness: after a tools/list, a call of an unknown tool without
\* arguments ended in the unknown-tool error.
C10_Witness ==
  \E c \in CallIds :
    /\ listed # <<>> /\ Done(c) /\ req[c].name = "get_weather"
    /\ ~req[c].args.present
    /\ HasToken(TextOf(c), Lit("Unknown tool: "))

\* ------------------------------------------------------ buckets and means
\* the entries of a calendar date, in upstream order
EntriesOfDate(list, date) ==
  LET OnDate(e) == e.dt \div 86400 = date IN SelectSeq(list, OnDate)

IsForecastList(c) ==
  /\ Done(c) /\ req[c].name = "get_weather_forecast"
  /\ upstream[c].data.kind = "json" /\ upstream[c].data.hasList

\* the buckets hold every entry once, under its own UTC date, the dates in
\* order of first appearance and the entries of a date in upstream order
BucketsPartitionTheList(list) ==
  LET dailyData == GroupByDate(list, <<>>)
  IN /\ Len(dailyData) = Cardinality(DatesOf(list))
     /\ \A b \in DOMAIN dailyData :
          /\ dailyData[b].date = NthDate(list, b)
          /\ dailyData[b].forecasts = EntriesOfDate(list, dailyData[b].date)
     /\ \A i \in DOMAIN list :
          Cardinality({b \in DOMAIN dailyData : dailyData[b].date = list[i].dt \div 86400}) = 1

\* C12 as stated: every upstream entry lies in exactly one bucket, that of its
\* UTC calendar date, and the returned days are the first distinct dates in
\* order of first appearance, one entry per date, none repeated, each built
\* from all the entries of its date.
C12_ReturnedDaysAreFirstDates ==
  \A c \in CallIds :
    /\ IsForecastList(c) => BucketsPartitionTheList(upstream[c].data.list)
    /\ IsForecastResult(c) =>
         LET list == upstream[c].data.list
             text == TextOf(c)
         IN /\ DayCount(text) <= Cardinality(DatesOf(list))
            /\ \A i \in 1..DayCount(text) :
                 /\ DayAt(text, i).date = NthDate(list, i)
                 /\ \A j \in 1..DayCount(text) :
                      i # j => DayAt(text, i).date # DayAt(text, j).date
                 /\ DayAt(text, i).humidity
                      = RoundMean(SumSeq([k \in DOMAIN EntriesOfDate(list, NthDate(list, i))
                                            |-> EntriesOfDate(list, NthDate(list, i))[k].humidity]),
                                  Len(EntriesOfDate(list, NthDate(list, i))))

\* the part of C12 that holds in every time zone: the same, with the date of
\* a returned day read as the rendering of the date of its bucket
C12_BucketsInOrderOfAppearance ==
  \A c \in CallIds :
    /\ IsForecastList(c) => BucketsPartitionTheList(upstream[c].data.list)
    /\ IsForecastResult(c) =>
         LET list == upstream[c].data.list
             text == TextOf(c)
         IN /\ DayCount(text) <= Cardinality(DatesOf(list))
            /\ \A i \in 1..DayCount(text) :
                 /\ DayAt(text, i).date
                      = (IF localBehindUTC THEN NthDate(list, i) - 1 ELSE NthDate(list, i))
                 /\ \A j \in 1..DayCount(text) :
                      i # j => DayAt(text, i).date # DayAt(text, j).date

\* the sum of the humidities, and of the wind speeds, of a date's entries
HumiditySum(list, date) ==
  LET on == EntriesOfDate(list, date) IN SumSeq([k \in DOMAIN on |-> on[k].humidity])
WindSum(list, date) ==
  LET on == EntriesOfDate(list, date) IN SumSeq([k \in DOMAIN on |-> on[k].wind])

\* C13 as stated: the humidity of every returned day is the arithmetic mean of
\* the humidities of its date's entries, and its wind speed the mean of their
\* wind speeds rounded to one decimal.
C13_HumidityIsTheMean ==
  \A c \in CallIds :
    IsForecastResult(c) =>
      \A i \in 1..DayCount(TextOf(c)) :
        LET list == upstream[c].data.list
            date == NthDate(list, i)
            n == Len(EntriesOfDate(list, date))
            day == DayAt(TextOf(c), i)
        IN /\ day.humidity * n = HumiditySum(list, date)
           /\ 2 * n * day.windSpeed <= 5 * WindSum(list, date) + n
           /\ 5 * WindSum(list, date) + n < 2 * n * (day.windSpeed + 1)

\* C13 amended: the humidity of every returned day is the arithmetic mean of
\* the humidities of its date's entries rounded to the nearest integer, a
\* half rounded up, and its wind speed (in tenths, the winds being counted in
\* quarters) the mean of their wind speeds rounded to one decimal.
C13_HumidityIsTheRoundedMean ==
  \A c \in CallIds :
    IsForecastResult(c) =>
      \A i \in 1..DayCount(TextOf(c)) :
        LET list == upstream[c].data.list
            date == NthDate(list, i)
            n == Len(EntriesOfDate(list, date))
            day == DayAt(TextOf(c), i)
        IN /\ 2 * n * day.humidity <= 2 * HumiditySum(list, date) + n
           /\ 2 * HumiditySum(list, date) + n < 2 * n * (day.humidity + 1)
           /\ 2 * n * day.windSpeed <= 5 * WindSum(list, date) + n
           /\ 5 * WindSum(list, date) + n < 2 * n * (day.windSpeed + 1)

\* C13 witness: a day of two entries of humidity 40 and 45 and wind 1.0 and
\* 1.25 reported 43 % (the mean is 42.5) and 1.1.
C13_Witness ==
  \E c \in CallIds :
    /\ IsForecastResult(c) /\ DayCount(TextOf(c)) >= 1
    /\ LET list == upstream[c].data.list
           day == DayAt(TextOf(c), 1)
       IN /\ Len(list) = 2 /\ list[1].humidity = 40 /\ list[2].humidity = 45
          /\ list[1].wind = 4 /\ list[2].wind = 5
          /\ day.humidity = 43 /\ day.windSpeed = 11

\* C14: in every call the arguments are validated, then the credential is
\* checked, then one outbound request is issued, then the response is made:
\* a call issues at most one request, also after a failed one, only with valid
\* arguments and a credential, it has no response while its request is
\* pending, and invalid arguments without a credential report the validation
\* error.
C14_FixedStepOrder ==
  \A c \in CallIds :
    req[c].name \in ToolNames =>
      /\ Len(fetched[c]) <= 1
      /\ fetched[c] # <<>> =>
           ~ViolatesSchema(req[c].name, req[c].args) /\ OPENWEATHER_API_KEY # ""
      /\ pc[c] \in {"fetch", "json"} => Len(fetched[c]) = 1 /\ resp[c] = NoResponse
      /\ pc[c] \in {"catch", "resume"} => resp[c] = NoResponse
      /\ upstream[c].reply.kind # "none" => Len(fetched[c]) = 1
      /\ Done(c) /\ ViolatesSchema(req[c].name, req[c].args) /\ OPENWEATHER_API_KEY = ""
           => IsValidationError(resp[c])
      /\ Done(c) /\ ~ViolatesSchema(req[c].name, req[c].args) /\ OPENWEATHER_API_KEY = ""
           => resp[c] = CatchBlock(NoKeyError)

\* C14 witness: a get_current_weather call with a numeric location and no
\* credential ended in the validation error.
C14_Witness ==
  \E c \in CallIds :
    /\ Done(c) /\ req[c].name = "get_current_weather"
    /\ req[c].args.present /\ req[c].args.location = JsNum(2)
    /\ OPENWEATHER_API_KEY = ""
    /\ IsValidationError(resp[c])

\* a second case of C14: a call answered 500 ended with its one request
C14_FailedRequestNotRetried ==
  \E c \in CallIds :
    /\ Done(c) /\ upstream[c].reply.status = 500 /\ Len(fetched[c]) = 1

\* ------------------------------------------------------------ C11 and C15
\* the response with the update time of get_current_weather blanked
WithoutClock(r) ==
  IF r.content = <<>> THEN r
  ELSE [r EXCEPT !.content[1].text =
          [i \in DOMAIN @ |->
             IF @[i].k = "num" /\ @[i].s = "toLocaleString" THEN Num("toLocaleString", 0)
             ELSE @[i]]]

SameCall(c, d) ==
  /\ Done(c) /\ Done(d)
  /\ req[c] = req[d]
  /\ upstream[c] = upstream[d]

\* C11: no state is carried across calls. Two calls of one process with the
\* same tool name, arguments and upstream reply, whatever requests came
\* before each of them, have the same response apart from the update time;
\* and no step changes the credential, the time zone or the tool table that
\* later requests read.
C11_NoStateAcrossCalls ==
  /\ [](\A c, d \in ConcIds : SameCall(c, d) => WithoutClock(resp[c]) = WithoutClock(resp[d]))
  /\ [](listed \in {<<>>, ListTools})
  /\ [][/\ OPENWEATHER_API_KEY' = OPENWEATHER_API_KEY
        /\ localBehindUTC' = localBehindUTC
        /\ listed # <<>> => listed' = listed]_vars

\* C11 witness: after a tools/list, two get_current_weather calls with the
\* same arguments and the same upstream reply ended with responses that differ
\* in the update time only.
C11_Witness ==
  /\ listed = ListTools
  /\ SameCall(1, 2)
  /\ req[1].name = "get_current_weather"
  /\ upstream[1].data.kind = "json"
  /\ resp[1] # resp[2]
  /\ WithoutClock(resp[1]) = WithoutClock(resp[2])

\* what the handler makes of a request and its own upstream reply alone
OwnResponse(r, u, now) ==
  LET start == Dispatch(r.name, r.args, OPENWEATHER_API_KEY)
      check == StatusCheck(r.name, r.args, u.reply)
      out == Finish(r.name, r.args, u.data, now)
  IN IF start.threw THEN CatchBlock(start.error)
     ELSE IF check.threw THEN CatchBlock(check.error)
     ELSE IF out.threw THEN CatchBlock(out.error)
     ELSE Resolved(out.content)

Slot(c) == <<pc[c], req[c], fetched[c], upstream[c], resp[c], thrown[c], returned[c]>>

InFlight(c) == pc[c] \in {"fetch", "json", "catch", "resume"}

\* C15: with two calls in flight, a step of one call leaves the request, the
\* replies and the response of the other untouched, the response of a call is
\* the one its own arguments and its own upstream reply give, and while the
\* reply to call 1 has not arrived, call 2, whose reply arrives, still gets
\* its response.
C15_CallsDoNotWaitForEachOther ==
  /\ [][\A c, d \in ConcIds : c # d /\ Slot(c)' # Slot(c) => Slot(d)' = Slot(d)]_vars
  /\ [](\A c \in ConcIds :
          Done(c) => \E now \in ClockValues : resp[c] = OwnResponse(req[c], upstream[c], now))
  /\ (pc[1] = "fetch" /\ InFlight(2)) ~> Done(2)

\* C15 witness: call 1 still awaits its fetch, and a forecast call that
\* received its reply has its response.
C15_Witness ==
  /\ pc[1] = "fetch"
  /\ Done(2)
  /\ req[2].name = "get_weather_forecast"
  /\ upstream[2].data.kind = "json"
  /\ IsForecastResult(2)

====
